---------------------------- MODULE Spec2Model ----------------------------
(***************************************************************************)
(* Model of the reconciliation core of better-backtesting                  *)
(* (src/backend/utils/data_processor.py): process_kite_data,               *)
(* process_tradingview_data and calculate_deltas, and of the HTTP handlers *)
(* that run it (src/backend/app.py): upload_files, process_files,          *)
(* get_analysis and get_chart.                                             *)
(*                                                                         *)
(* Numbers are modelled as integers; a quotient is kept as an exact        *)
(* fraction [num, den], so floating-point rounding is not modelled.        *)
(* Missing values (NaN) are outside the input domains drawn here.          *)
(***************************************************************************)
EXTENDS Integers, Sequences, FiniteSets

VARIABLES
    kite_file,          \* the settlement file handed to process_kite_data
    kite_data,          \* process_kite_data's outcome; calculate_deltas' first argument
    df_columns,         \* df.columns of a trade-log table, in column order
    schema,             \* the columns resolved for df_columns
    schema_again,       \* the columns resolved for the table of the resolved columns only
    file_paths,         \* the trade-log files handed to process_tradingview_data
    tradingview_data,   \* calculate_deltas' second argument (process_tradingview_data's result)
    df_delta,           \* what calculate_deltas returned or raised
    requests,           \* the uploads clients have yet to send to POST /upload
    uploaded_files,     \* app.py: uploaded_files, session id -> saved files
    analysis_results,   \* app.py: analysis_results, session id -> stored entry
    background_tasks,   \* the process_files tasks added and not yet run
    response            \* the HTTP response to the latest request

app_vars == <<requests, uploaded_files, analysis_results, background_tasks, response>>

vars == <<kite_file, kite_data, df_columns, schema, schema_again, file_paths,
          tradingview_data, df_delta, app_vars>>

---------------------------------------------------------------------------
(* Bounds of the input domains.                                            *)

\* Realized P&L values of the instrument mappings range over -MaxPnl..MaxPnl.
MaxPnl == 2

PnlVals == (-MaxPnl)..MaxPnl

\* Instrument symbols; SymbolOrder lists them in ascending string order.
SymbolOrder == <<"A", "B", "C">>

Symbols == {SymbolOrder[i] : i \in 1..Len(SymbolOrder)}

---------------------------------------------------------------------------
(* Python and pandas helpers.                                              *)

\* abs()
Abs(x) == IF x < 0 THEN -x ELSE x

\* The iteration orders of a Python set: any order of its elements (string
\* hashes are randomized per process, so the order differs between runs).
RECURSIVE SetIterationOrders(_)
SetIterationOrders(S) ==
    IF S = {} THEN {<<>>}
    ELSE UNION {{<<x>> \o rest : rest \in SetIterationOrders(S \ {x})} : x \in S}

\* Maximum of keys[i] over the non-empty index set idx.
MaxKey(idx, keys) == CHOOSE m \in {keys[i] : i \in idx} : \A j \in idx : keys[j] <= m

\* DataFrame.sort_values(..., ascending=False) with the default kind
\* 'quicksort': the index orders it can return, i.e. every order of idx in
\* which the keys do not increase.  The default sort is not stable, so rows
\* with equal keys may come out in any relative order.
RECURSIVE SortedIndexOrders(_, _)
SortedIndexOrders(idx, keys) ==
    IF idx = {} THEN {<<>>}
    ELSE LET m == MaxKey(idx, keys)
         IN UNION {{<<i>> \o rest : rest \in SortedIndexOrders(idx \ {i}, keys)}
                   : i \in {j \in idx : keys[j] = m}}

\* The rows taken in the index order ord.
Reindex(rows, ord) == [i \in 1..Len(ord) |-> rows[ord[i]]]

\* Strings that the code takes apart (paths, column names, actions) are
\* modelled as sequences of one-character strings.
UpperCase == <<"A","B","C","D","E","F","G","H","I","J","K","L","M",
               "N","O","P","Q","R","S","T","U","V","W","X","Y","Z">>
LowerCase == <<"a","b","c","d","e","f","g","h","i","j","k","l","m",
               "n","o","p","q","r","s","t","u","v","w","x","y","z">>

\* str.lower(): the lower-case letter of each upper-case letter; any other
\* character is unchanged.
LowerOf ==
    [c \in {UpperCase[i] : i \in 1..Len(UpperCase)} |->
        LowerCase[CHOOSE i \in 1..Len(UpperCase) : UpperCase[i] = c]]
LowerChar(c) == IF c \in DOMAIN LowerOf THEN LowerOf[c] ELSE c
StrLower(s) == [i \in 1..Len(s) |-> LowerChar(s[i])]

\* str.endswith(suffix)
EndsWith(s, suffix) ==
    /\ Len(s) >= Len(suffix)
    /\ SubSeq(s, Len(s) - Len(suffix) + 1, Len(s)) = suffix

\* sub in s
Contains(s, sub) ==
    \E i \in 0..(Len(s) - Len(sub)) : SubSeq(s, i + 1, i + Len(sub)) = sub

\* float('inf'), and an exact quotient n/d.
Inf == [kind |-> "inf", num |-> 0, den |-> 1]
Quotient(n, d) == [kind |-> "num", num |-> n, den |-> d]
ZeroDivisionError == [kind |-> "ZeroDivisionError", num |-> 0, den |-> 0]

\* n / d
TrueDiv(n, d) == IF d = 0 THEN ZeroDivisionError ELSE Quotient(n, d)

\* Series.sum() and Series.mean() of a sequence of numbers (the mean of an
\* empty Series is NaN).
RECURSIVE SeqSum(_)
SeqSum(xs) == IF xs = <<>> THEN 0 ELSE xs[1] + SeqSum(Tail(xs))
NaN == [kind |-> "nan", num |-> 0, den |-> 0]
SeqMean(xs) == IF xs = <<>> THEN NaN ELSE Quotient(SeqSum(xs), Len(xs))

\* dict[key] = value
DictSet(dict, key, value) ==
    [k \in DOMAIN dict \cup {key} |-> IF k = key THEN value ELSE dict[k]]

\* {}
EmptyDict == [k \in {} |-> 0]

\* No request answered yet.
NoResponse ==
    [endpoint |-> "", session_id |-> "", chart_type |-> "", status_code |-> 0, detail |-> ""]

\* The web application of app.py is not under study: nothing uploaded.
AppIdle ==
    /\ requests = <<>>
    /\ uploaded_files = EmptyDict
    /\ analysis_results = EmptyDict
    /\ background_tasks = {}
    /\ response = NoResponse

\* No settlement file (process_kite_data is not under study).
NoFile == [file_path |-> <<>>, columns |-> {}, rows |-> <<>>]

\* No schema resolved yet.
NoColumn == <<>>
NotResolved ==
    [status |-> "not resolved", date_col |-> NoColumn, action_col |-> NoColumn,
     qty_col |-> NoColumn, price_col |-> NoColumn]

---------------------------------------------------------------------------
(* process_kite_data                                                       *)

\* File paths handed to process_kite_data.
Path_csv      == <<"k", ".", "c", "s", "v">>
Path_CSV      == <<"k", ".", "C", "S", "V">>
Path_xlsx     == <<"k", ".", "x", "l", "s", "x">>
Path_txt      == <<"k", ".", "t", "x", "t">>
KitePaths == {Path_csv, Path_CSV, Path_xlsx, Path_txt}

Ext_xlsx == <<".", "x", "l", "s", "x">>
Ext_csv  == <<".", "c", "s", "v">>

\* required_columns, in the order the code checks them.
required_columns ==
    <<"Symbol", "ISIN", "Quantity", "Buy Value", "Sell Value",
      "Realized P&L", "Realized P&L Pct.">>

RequiredColumnSet == {required_columns[i] : i \in 1..Len(required_columns)}

\* Columns a settlement file may carry besides the required ones.
OtherKiteColumns == {"symbol", "Unrealized P&L"}

\* The first required column that df.columns lacks (the loop raises at it).
FirstMissingIndex(columns) ==
    CHOOSE i \in 1..Len(required_columns) :
        /\ required_columns[i] \notin columns
        /\ \A j \in 1..(i - 1) : required_columns[j] \in columns

\* Mutant of MissingColumns: the last required column is not checked.
MissingColumns_SkipLast(columns) ==
    {i \in 1..(Len(required_columns) - 1) : required_columns[i] \notin columns}

\* Indices of the required columns for which `col not in df.columns`.
MissingColumns(columns) ==
    {i \in 1..Len(required_columns) : required_columns[i] \notin columns}

\* df[col] as a sequence of values.
Column(rows, col) == [i \in 1..Len(rows) |-> rows[i][col]]

\* summary
KiteSummary(rows) ==
    [total_pnl        |-> SeqSum(Column(rows, "Realized P&L")),
     total_buy_value  |-> SeqSum(Column(rows, "Buy Value")),
     total_sell_value |-> SeqSum(Column(rows, "Sell Value")),
     avg_pnl_pct      |-> SeqMean(Column(rows, "Realized P&L Pct."))]

\* 5, the argument of head() and tail()
RankSize == 5

\* DataFrame.head(n)
DfHead(rows, n) == SubSeq(rows, 1, IF Len(rows) < n THEN Len(rows) ELSE n)

\* Mutant of DfTail: the first n rows instead of the last n.
DfTail_First(rows, n) == DfHead(rows, n)

\* DataFrame.tail(n)
DfTail(rows, n) == SubSeq(rows, IF Len(rows) < n THEN 1 ELSE Len(rows) - n + 1, Len(rows))

\* df.sort_values('Realized P&L', ascending=False): the possible results.
SortByRealizedPnl(rows) ==
    LET keys == Column(rows, "Realized P&L")
    IN {Reindex(rows, ord) : ord \in SortedIndexOrders(1..Len(rows), keys)}

\* The entry stored for one row.
StockEntry(row) ==
    [realized_pnl     |-> row["Realized P&L"],
     realized_pnl_pct |-> row["Realized P&L Pct."],
     buy_value        |-> row["Buy Value"],
     sell_value       |-> row["Sell Value"]]

\* Mutant of StoreStock: an entry already stored for the symbol is kept.
StoreStock_KeepFirst(stocks_summary, row) ==
    IF row["Symbol"] \in DOMAIN stocks_summary THEN stocks_summary
    ELSE DictSet(stocks_summary, row["Symbol"], StockEntry(row))

\* Mutant of StoreStock: the row is added to an entry already stored for the
\* symbol.
StoreStock_Summed(stocks_summary, row) ==
    IF row["Symbol"] \in DOMAIN stocks_summary
    THEN LET old == stocks_summary[row["Symbol"]]
         IN DictSet(stocks_summary, row["Symbol"],
                    [realized_pnl     |-> old.realized_pnl + row["Realized P&L"],
                     realized_pnl_pct |-> old.realized_pnl_pct + row["Realized P&L Pct."],
                     buy_value        |-> old.buy_value + row["Buy Value"],
                     sell_value       |-> old.sell_value + row["Sell Value"]])
    ELSE DictSet(stocks_summary, row["Symbol"], StockEntry(row))

\* stocks_summary[symbol] = {...}: one iteration of the loop over df.iterrows()
StoreStock(stocks_summary, row) == DictSet(stocks_summary, row["Symbol"], StockEntry(row))

\* stocks_summary after the loop over rows i..Len(rows), starting from acc.
RECURSIVE BuildStocksSummary(_, _, _)
BuildStocksSummary(rows, i, acc) ==
    IF i > Len(rows) THEN acc
    ELSE BuildStocksSummary(rows, i + 1, StoreStock(acc, rows[i]))

NoReport ==
    [summary |-> [total_pnl |-> 0, total_buy_value |-> 0, total_sell_value |-> 0,
                  avg_pnl_pct |-> NaN],
     top_5 |-> <<>>, bottom_5 |-> <<>>, stocks_summary |-> EmptyDict, raw_data |-> <<>>]

KiteNotCalled == [status |-> "not called", error |-> "", column |-> "", report |-> NoReport]
KiteRaised(error, column) ==
    [status |-> "raised", error |-> error, column |-> column, report |-> NoReport]
KiteReturned(report) ==
    [status |-> "returned", error |-> "", column |-> "", report |-> report]

\* top_5 = df_sorted.head(5).to_dict('records')
Top5(df_sorted) == DfHead(df_sorted, RankSize)

\* bottom_5 = df_sorted.tail(5).to_dict('records')
Bottom5(df_sorted) == DfTail(df_sorted, RankSize)

\* The columns the code reads after the validation.
ColumnsRead == {"Realized P&L", "Buy Value", "Sell Value", "Realized P&L Pct.", "Symbol"}

\* What process_kite_data can return or raise on a file.
ProcessKiteDataOutcomes(file) ==
    IF ~ (EndsWith(StrLower(file.file_path), Ext_xlsx)
          \/ EndsWith(StrLower(file.file_path), Ext_csv))
    THEN {KiteRaised("ValueError: Unsupported file format", "")}
    ELSE IF MissingColumns(file.columns) # {}
    THEN {KiteRaised("ValueError: Required column not found in Kite data file",
                     required_columns[FirstMissingIndex(file.columns)])}
    ELSE IF ~ (ColumnsRead \subseteq file.columns)
    THEN {KiteRaised("KeyError", "")}
    ELSE {KiteReturned([summary        |-> KiteSummary(file.rows),
                        top_5          |-> Top5(df_sorted),
                        bottom_5       |-> Bottom5(df_sorted),
                        stocks_summary |-> BuildStocksSummary(file.rows, 1, EmptyDict),
                        raw_data       |-> file.rows])
          : df_sorted \in SortByRealizedPnl(file.rows)}

process_kite_data ==
    /\ kite_data = KiteNotCalled
    /\ \E outcome \in ProcessKiteDataOutcomes(kite_file) : kite_data' = outcome
    /\ UNCHANGED <<kite_file, df_columns, schema, schema_again, file_paths,
                 tradingview_data, df_delta, app_vars>>

\* Input domain: settlement rows.  Buy values of 50 and 100 make the
\* percentage 100 * pnl / buy an integer.
MaxKiteRows == 3
MaxRankRows == 6
KitePnlVals == {-1, 0, 2}
KiteBuyVals == {50, 100}

KiteRow(columns, symbol, pnl, buy) ==
    [c \in columns |->
        CASE c = "Symbol"            -> symbol
          [] c = "ISIN"              -> symbol
          [] c = "Quantity"          -> 1
          [] c = "Buy Value"         -> buy
          [] c = "Sell Value"        -> buy + pnl
          [] c = "Realized P&L"      -> pnl
          [] c = "Realized P&L Pct." -> pnl * (100 \div buy)
          [] OTHER                   -> 0]

KiteRows(columns) ==
    {KiteRow(columns, s, p, b) : s \in Symbols, p \in KitePnlVals, b \in KiteBuyVals}

\* Sequences of length at most n over the set S.
SeqsUpTo(S, n) == UNION {[1..k -> S] : k \in 0..n}

\* Files whose column set is any subset of the known columns, in any of the
\* paths, with no row or one row.
KiteFilesAnyColumns ==
    {[file_path |-> p, columns |-> cols, rows |-> rows] :
        p \in KitePaths,
        cols \in SUBSET (RequiredColumnSet \cup OtherKiteColumns),
        rows \in {<<>>}} \cup
    {[file_path |-> p, columns |-> cols, rows |-> <<KiteRow(cols, "A", 2, 100)>>] :
        p \in KitePaths,
        cols \in SUBSET (RequiredColumnSet \cup OtherKiteColumns)}

\* Well-formed files of up to n arbitrary rows (symbols may repeat).
KiteFilesShort(n) ==
    {[file_path |-> Path_csv, columns |-> RequiredColumnSet, rows |-> rows] :
        rows \in SeqsUpTo(KiteRows(RequiredColumnSet), n)}

\* Well-formed files of up to n rows (more than head() and tail() take when
\* n > RankSize): row i holds symbol SymbolOrder[((i-1) % 3) + 1] and any P&L.
KiteFilesLong(n) ==
    {[file_path |-> Path_xlsx, columns |-> RequiredColumnSet,
      rows |-> [i \in 1..Len(pnls) |->
                   KiteRow(RequiredColumnSet,
                           SymbolOrder[((i - 1) % Len(SymbolOrder)) + 1], pnls[i], 100)]] :
        pnls \in SeqsUpTo(KitePnlVals, n)}

\* Files of up to short arbitrary rows or up to long ranked rows.
KiteFiles(short, long) ==
    KiteFilesAnyColumns \cup KiteFilesShort(short) \cup KiteFilesLong(long)

InitKite ==
    /\ kite_file \in KiteFiles(MaxKiteRows, MaxRankRows)
    /\ df_columns = <<>>
    /\ schema = NotResolved
    /\ schema_again = NotResolved
    /\ file_paths = <<>>
    /\ kite_data = KiteNotCalled
    /\ tradingview_data = [stocks_data |-> EmptyDict]
    /\ df_delta = [status |-> "not called", error |-> "", rows |-> <<>>]
    /\ AppIdle

NextKite == process_kite_data

SpecKite == InitKite /\ [][NextKite]_vars

---------------------------------------------------------------------------
(* Properties of process_kite_data, checked under SpecKite.                *)

KiteTable == kite_file.rows
KiteReport == kite_data.report

\* Sum of f[x] over the finite set S.
RECURSIVE SumOver(_, _)
SumOver(S, f) ==
    IF S = {} THEN 0
    ELSE LET x == CHOOSE y \in S : TRUE IN f[x] + SumOver(S \ {x}, f)

\* Sum of realized_pnl over the entries of stocks_summary.
MappingPnlSum ==
    SumOver(DOMAIN KiteReport.stocks_summary,
            [s \in DOMAIN KiteReport.stocks_summary |->
                KiteReport.stocks_summary[s].realized_pnl])

\* Rows whose Symbol occurs again on a later row of the table.
OverwrittenRows ==
    {i \in 1..Len(KiteTable) :
        \E j \in (i + 1)..Len(KiteTable) : KiteTable[j]["Symbol"] = KiteTable[i]["Symbol"]}

OverwrittenPnlSum ==
    SumOver(OverwrittenRows, [i \in OverwrittenRows |-> KiteTable[i]["Realized P&L"]])

SupportedExtension ==
    \/ EndsWith(StrLower(kite_file.file_path), <<".", "x", "l", "s", "x">>)
    \/ EndsWith(StrLower(kite_file.file_path), <<".", "c", "s", "v">>)

RequiredNames ==
    {"Symbol", "ISIN", "Quantity", "Buy Value", "Sell Value",
     "Realized P&L", "Realized P&L Pct."}

\* C6: when the table read from the file lacks a required column, the call
\* fails with the missing-column error, the error names a required column
\* that the table lacks, and no report is returned.
C6_MissingColumnFails ==
    (/\ kite_data.status # "not called"
     /\ SupportedExtension
     /\ ~ (RequiredNames \subseteq kite_file.columns)) =>
        /\ kite_data.status = "raised"
        /\ kite_data.error = "ValueError: Required column not found in Kite data file"
        /\ kite_data.column \in RequiredNames \ kite_file.columns
        /\ kite_data.report = NoReport

\* C6 witness: the call failed on a readable file holding rows and lacking
\* two required columns, neither the first of the list, and named one.
C6_Witness ==
    /\ kite_data.status = "raised"
    /\ SupportedExtension
    /\ kite_file.rows # <<>>
    /\ "Symbol" \in kite_file.columns
    /\ Cardinality(RequiredNames \ kite_file.columns) = 2
    /\ "Realized P&L Pct." \notin kite_file.columns
    /\ kite_data.column \in RequiredNames \ kite_file.columns

Min(a, b) == IF a < b THEN a ELSE b

\* Number of rows of seq whose Realized P&L satisfies Test.
CountPnl(seq, Test(_)) == Cardinality({i \in 1..Len(seq) : Test(seq[i]["Realized P&L"])})

\* Number of occurrences of row in seq.
Occurrences(seq, row) == Cardinality({i \in 1..Len(seq) : seq[i] = row})

\* ranked is made of rows of the table, none taken more often than it occurs.
RowsOfTable(ranked) ==
    \A i \in 1..Len(ranked) : Occurrences(ranked, ranked[i]) <= Occurrences(KiteTable, ranked[i])

\* The Realized P&L values of the table.
TablePnls == {KiteTable[i]["Realized P&L"] : i \in 1..Len(KiteTable)}

\* top_5 holds the min(5, n) rows of greatest Realized P&L, in descending order.
TopIsGreatestDescending ==
    LET top == KiteReport.top_5
        k   == Min(5, Len(KiteTable))
    IN /\ Len(top) = k
       /\ RowsOfTable(top)
       /\ \A v \in TablePnls :
             LET Above(x) == x > v
             IN CountPnl(top, Above) = Min(k, CountPnl(KiteTable, Above))
       /\ \A i \in 1..(Len(top) - 1) : top[i]["Realized P&L"] >= top[i + 1]["Realized P&L"]

\* bottom_5 holds the min(5, n) rows of smallest Realized P&L.
BottomIsSmallest ==
    LET bottom == KiteReport.bottom_5
        k      == Min(5, Len(KiteTable))
    IN /\ Len(bottom) = k
       /\ RowsOfTable(bottom)
       /\ \A v \in TablePnls :
             LET Below(x) == x < v
             IN CountPnl(bottom, Below) = Min(k, CountPnl(KiteTable, Below))

\* C7 as stated: top_5 holds the min(5, n) rows of greatest Realized P&L in
\* descending order, and bottom_5 the min(5, n) rows of smallest Realized P&L
\* in ascending order.
C7_TopDescendingBottomAscending ==
    kite_data.status = "returned" =>
        /\ TopIsGreatestDescending
        /\ BottomIsSmallest
        /\ \A i \in 1..(Len(KiteReport.bottom_5) - 1) :
              KiteReport.bottom_5[i]["Realized P&L"] <= KiteReport.bottom_5[i + 1]["Realized P&L"]

\* C7 amended: top_5 holds the min(5, n) rows of greatest Realized P&L in
\* descending order, and bottom_5 the min(5, n) rows of smallest Realized P&L,
\* also in descending order (the last rows of the descending ranking, the
\* worst row last); with fewer than 10 rows the two may share rows.
C7_TopDescendingBottomDescending ==
    kite_data.status = "returned" =>
        /\ TopIsGreatestDescending
        /\ BottomIsSmallest
        /\ \A i \in 1..(Len(KiteReport.bottom_5) - 1) :
              KiteReport.bottom_5[i]["Realized P&L"] >= KiteReport.bottom_5[i + 1]["Realized P&L"]

\* C7 witness: a report of a table of more than five rows whose top_5 and
\* bottom_5 differ, share rows and each hold rows of different P&L.
C7_Witness ==
    /\ kite_data.status = "returned"
    /\ Len(KiteTable) > 5
    /\ Len(KiteReport.top_5) = 5
    /\ Len(KiteReport.bottom_5) = 5
    /\ KiteReport.top_5 # KiteReport.bottom_5
    /\ KiteReport.top_5[2] = KiteReport.bottom_5[1]
    /\ KiteReport.top_5[1]["Realized P&L"] > KiteReport.top_5[5]["Realized P&L"]
    /\ KiteReport.bottom_5[1]["Realized P&L"] > KiteReport.bottom_5[5]["Realized P&L"]
    /\ KiteReport.top_5[1]["Realized P&L"] > KiteReport.bottom_5[5]["Realized P&L"]

\* The last row of the table with the Symbol s.
LastRowOf(s) ==
    KiteTable[CHOOSE i \in 1..Len(KiteTable) :
                 /\ KiteTable[i]["Symbol"] = s
                 /\ \A j \in (i + 1)..Len(KiteTable) : KiteTable[j]["Symbol"] # s]

\* C16: stocks_summary has exactly one entry per distinct Symbol of the
\* table, and the entry of a Symbol holds the Realized P&L, Realized P&L
\* Pct., Buy Value and Sell Value of the last row with that Symbol: earlier
\* rows of the Symbol are dropped, not summed.
C16_LastRowWins ==
    kite_data.status = "returned" =>
        /\ DOMAIN KiteReport.stocks_summary =
              {KiteTable[i]["Symbol"] : i \in 1..Len(KiteTable)}
        /\ \A s \in DOMAIN KiteReport.stocks_summary :
              LET entry == KiteReport.stocks_summary[s]
                  row   == LastRowOf(s)
              IN /\ DOMAIN entry = {"realized_pnl", "realized_pnl_pct", "buy_value", "sell_value"}
                 /\ entry.realized_pnl = row["Realized P&L"]
                 /\ entry.realized_pnl_pct = row["Realized P&L Pct."]
                 /\ entry.buy_value = row["Buy Value"]
                 /\ entry.sell_value = row["Sell Value"]

\* C16 witness: a report of a table of three rows whose first and third row
\* share a Symbol and differ in Realized P&L and Buy Value, another Symbol
\* lying between them; the entry holds the third row's values.
C16_Witness ==
    /\ kite_data.status = "returned"
    /\ Len(KiteTable) = 3
    /\ KiteTable[1]["Symbol"] = KiteTable[3]["Symbol"]
    /\ KiteTable[2]["Symbol"] # KiteTable[1]["Symbol"]
    /\ KiteTable[1]["Realized P&L"] # KiteTable[3]["Realized P&L"]
    /\ KiteTable[1]["Buy Value"] # KiteTable[3]["Buy Value"]
    /\ Cardinality(DOMAIN KiteReport.stocks_summary) = 2
    /\ KiteReport.stocks_summary[KiteTable[3]["Symbol"]].realized_pnl
          = KiteTable[3]["Realized P&L"]

---------------------------------------------------------------------------
(* process_tradingview_data: the resolution of the columns                 *)

\* Column names.
Col_Date     == <<"D","a","t","e">>
Col_Action   == <<"A","c","t","i","o","n">>
Col_Quantity == <<"Q","u","a","n","t","i","t","y">>
Col_Price    == <<"P","r","i","c","e">>
Col_Time     == <<"T","i","m","e">>
Col_Side     == <<"S","i","d","e">>
Col_Amount   == <<"A","m","o","u","n","t">>
Col_date     == <<"d","a","t","e">>
Col_type     == <<"t","y","p","e">>
Col_quantity == <<"q","u","a","n","t","i","t","y">>
Col_price    == <<"p","r","i","c","e">>
Col_Qty      == <<"Q","t","y">>
Col_Symbol   == <<"S","y","m","b","o","l">>
Col_price_type == <<"p","r","i","c","e","_","t","y","p","e">>

\* The three column patterns, in the order of the if / elif chain.
Conventions ==
    << <<Col_Date, Col_Action, Col_Quantity, Col_Price>>,
       <<Col_Time, Col_Side, Col_Amount, Col_Price>>,
       <<Col_date, Col_type, Col_quantity, Col_price>> >>

\* The keywords of the candidate lists.
Kw_date     == {<<"d","a","t","e">>, <<"t","i","m","e">>}
Kw_action   == {<<"a","c","t","i","o","n">>, <<"t","y","p","e">>, <<"s","i","d","e">>}
Kw_qty      == {<<"q","t","y">>, <<"q","u","a","n","t","i","t","y">>, <<"a","m","o","u","n","t">>}
Kw_price    == {<<"p","r","i","c","e">>}

\* The elements of a sequence.
Range(seq) == {seq[i] : i \in 1..Len(seq)}

\* all(col in df.columns for col in convention)
ConventionMatches(columns, convention) ==
    \A i \in 1..Len(convention) : convention[i] \in Range(columns)

\* Mutant of MatchingConvention: the last pattern of the chain that matches.
MatchingConvention_Last(columns) ==
    LET matching == {k \in 1..Len(Conventions) : ConventionMatches(columns, Conventions[k])}
    IN IF matching = {} THEN 0
       ELSE CHOOSE k \in matching : \A j \in matching : j <= k

\* The branch of the if / elif chain that is taken: the first pattern that
\* matches, 0 when none does.
MatchingConvention(columns) ==
    LET matching == {k \in 1..Len(Conventions) : ConventionMatches(columns, Conventions[k])}
    IN IF matching = {} THEN 0
       ELSE CHOOSE k \in matching : \A j \in matching : k <= j

\* [col for col in df.columns if kw1 in col.lower() or kw2 in col.lower() ...]
Candidates(columns, keywords) ==
    LET Test(col) == \E kw \in keywords : Contains(StrLower(col), kw)
    IN SelectSeq(columns, Test)

Resolved(date_col, action_col, qty_col, price_col) ==
    [status |-> "resolved", date_col |-> date_col, action_col |-> action_col,
     qty_col |-> qty_col, price_col |-> price_col]

Unresolved ==
    [status |-> "unresolved", date_col |-> NoColumn, action_col |-> NoColumn,
     qty_col |-> NoColumn, price_col |-> NoColumn]

\* Mutant of FallbackSchema: the last candidate of each role is taken.
FallbackSchema_LastCandidate(columns) ==
    LET date_candidates   == Candidates(columns, Kw_date)
        action_candidates == Candidates(columns, Kw_action)
        qty_candidates    == Candidates(columns, Kw_qty)
        price_candidates  == Candidates(columns, Kw_price)
    IN IF /\ date_candidates # <<>> /\ action_candidates # <<>>
          /\ qty_candidates # <<>>  /\ price_candidates # <<>>
       THEN Resolved(date_candidates[Len(date_candidates)],
                     action_candidates[Len(action_candidates)],
                     qty_candidates[Len(qty_candidates)],
                     price_candidates[Len(price_candidates)])
       ELSE Unresolved

\* if not valid_cols: the columns inferred from the names
FallbackSchema(columns) ==
    LET date_candidates   == Candidates(columns, Kw_date)
        action_candidates == Candidates(columns, Kw_action)
        qty_candidates    == Candidates(columns, Kw_qty)
        price_candidates  == Candidates(columns, Kw_price)
    IN IF /\ date_candidates # <<>> /\ action_candidates # <<>>
          /\ qty_candidates # <<>>  /\ price_candidates # <<>>
       THEN Resolved(date_candidates[1], action_candidates[1],
                     qty_candidates[1], price_candidates[1])
       ELSE Unresolved

\* Mutant of ConventionSchema: the first four columns of the table are
\* taken for the pattern's columns.
ConventionSchema_ByPosition(columns, k) ==
    IF Len(columns) >= 4 THEN Resolved(columns[1], columns[2], columns[3], columns[4])
    ELSE Unresolved

\* date_col, action_col, qty_col, price_col = <the names of pattern k>
ConventionSchema(columns, k) ==
    Resolved(Conventions[k][1], Conventions[k][2], Conventions[k][3], Conventions[k][4])

\* date_col, action_col, qty_col, price_col and valid_cols for df.columns
ResolveSchema(columns) ==
    LET k == MatchingConvention(columns)
    IN IF k # 0 THEN ConventionSchema(columns, k) ELSE FallbackSchema(columns)

\* The table made of the resolved columns only, in their original order.
ResolvedColumnsOnly(columns, sch) ==
    LET Kept(col) == col \in {sch.date_col, sch.action_col, sch.qty_col, sch.price_col}
    IN SelectSeq(columns, Kept)

---------------------------------------------------------------------------
(* process_tradingview_data                                                *)

\* os.path.basename(path): what follows the last "/".
Basename(path) ==
    LET slashes == {i \in 1..Len(path) : path[i] = "/"}
        last    == IF slashes = {} THEN 0 ELSE CHOOSE i \in slashes : \A j \in slashes : j <= i
    IN SubSeq(path, last + 1, Len(path))

\* name.split('.')[0]: what precedes the first ".".
BeforeFirstDot(name) ==
    LET dots  == {i \in 1..Len(name) : name[i] = "."}
        first == IF dots = {} THEN Len(name) + 1 ELSE CHOOSE i \in dots : \A j \in dots : i <= j
    IN SubSeq(name, 1, first - 1)

\* symbol = os.path.basename(file_path).split('.')[0]
SymbolOf(file_path) == BeforeFirstDot(Basename(file_path))

Str_buy  == <<"b","u","y">>
Str_b    == <<"b">>
Str_sell == <<"s","e","l","l">>
Str_s    == <<"s">>

\* Mutant of IsBuy: the action is compared without lower-casing.
IsBuy_CaseSensitive(action) == action \in {Str_buy, Str_b}

\* df[action_col].str.lower().isin(['buy', 'b']), for one row's action
IsBuy(action) == StrLower(action) \in {Str_buy, Str_b}

\* df[action_col].str.lower().isin(['sell', 's']), for one row's action
IsSell(action) == StrLower(action) \in {Str_sell, Str_s}

\* (trades[qty_col] * trades[price_col]).sum()
TradeValue(trades, qty_col, price_col) ==
    SeqSum([i \in 1..Len(trades) |-> trades[i][qty_col] * trades[i][price_col]])

\* Mutant of RealizedPnlPct: the rule of the delta percentage (divide unless
\* the denominator is zero, else infinity).
RealizedPnlPct_DeltaRule(realized_pnl, total_buy_value) ==
    IF total_buy_value # 0 THEN Quotient(100 * realized_pnl, total_buy_value)
    ELSE Inf

\* realized_pnl_pct
RealizedPnlPct(realized_pnl, total_buy_value) ==
    IF total_buy_value > 0 THEN Quotient(100 * realized_pnl, total_buy_value)
    ELSE Quotient(0, 1)

\* The entry stored in all_tradingview_data for one table.
AggregateTrades(rows, sch) ==
    LET BuyRow(row)      == IsBuy(row[sch.action_col])
        SellRow(row)     == IsSell(row[sch.action_col])
        buy_trades       == SelectSeq(rows, BuyRow)
        sell_trades      == SelectSeq(rows, SellRow)
        total_buy_value  == TradeValue(buy_trades, sch.qty_col, sch.price_col)
        total_sell_value == TradeValue(sell_trades, sch.qty_col, sch.price_col)
        realized_pnl     == total_sell_value - total_buy_value
    IN [realized_pnl     |-> realized_pnl,
        realized_pnl_pct |-> RealizedPnlPct(realized_pnl, total_buy_value),
        buy_value        |-> total_buy_value,
        sell_value       |-> total_sell_value,
        raw_data         |-> rows]

\* a/b + c/d
RatAdd(x, y) == Quotient(x.num * y.den + y.num * x.den, x.den * y.den)

\* sum(data[field] for data in dict.values()), over the keys not yet summed
RECURSIVE DictSum(_, _, _)
DictSum(dict, keys, field) ==
    IF keys = {} THEN 0
    ELSE LET k == CHOOSE x \in keys : TRUE
         IN dict[k][field] + DictSum(dict, keys \ {k}, field)

\* np.mean([data['realized_pnl_pct'] for data in dict.values()])
RECURSIVE PctSum(_, _)
PctSum(dict, keys) ==
    IF keys = {} THEN Quotient(0, 1)
    ELSE LET k == CHOOSE x \in keys : TRUE
         IN RatAdd(dict[k].realized_pnl_pct, PctSum(dict, keys \ {k}))
PctMean(dict) ==
    IF DOMAIN dict = {} THEN NaN
    ELSE LET total == PctSum(dict, DOMAIN dict)
         IN Quotient(total.num, total.den * Cardinality(DOMAIN dict))

\* summary
TradingViewSummary(all_tradingview_data) ==
    [total_pnl        |-> DictSum(all_tradingview_data, DOMAIN all_tradingview_data, "realized_pnl"),
     total_buy_value  |-> DictSum(all_tradingview_data, DOMAIN all_tradingview_data, "buy_value"),
     total_sell_value |-> DictSum(all_tradingview_data, DOMAIN all_tradingview_data, "sell_value"),
     avg_pnl_pct      |-> PctMean(all_tradingview_data)]

NoSummary ==
    [total_pnl |-> 0, total_buy_value |-> 0, total_sell_value |-> 0, avg_pnl_pct |-> NaN]

TvNotCalled ==
    [status |-> "not called", error |-> "", file_path |-> <<>>,
     summary |-> NoSummary, stocks_data |-> EmptyDict]
TvRaised(error, file_path) ==
    [status |-> "raised", error |-> error, file_path |-> file_path,
     summary |-> NoSummary, stocks_data |-> EmptyDict]
TvReturned(summary, stocks_data) ==
    [status |-> "returned", error |-> "", file_path |-> <<>>,
     summary |-> summary, stocks_data |-> stocks_data]

\* Mutant of ProcessTradingViewFrom: a file whose columns cannot be resolved
\* is skipped instead of failing the call.
RECURSIVE ProcessTradingViewFrom_SkipUnresolved(_, _, _)
ProcessTradingViewFrom_SkipUnresolved(files, i, all_tradingview_data) ==
    IF i > Len(files)
    THEN TvReturned(TradingViewSummary(all_tradingview_data), all_tradingview_data)
    ELSE LET sch == ResolveSchema(files[i].columns)
         IN IF sch.status # "resolved"
            THEN ProcessTradingViewFrom_SkipUnresolved(files, i + 1, all_tradingview_data)
            ELSE ProcessTradingViewFrom_SkipUnresolved(files, i + 1,
                     DictSet(all_tradingview_data, SymbolOf(files[i].file_path),
                             AggregateTrades(files[i].rows, sch)))

\* The loop over file_paths from file i on, all_tradingview_data being what
\* the earlier iterations stored, and the statements after the loop.
RECURSIVE ProcessTradingViewFrom(_, _, _)
ProcessTradingViewFrom(files, i, all_tradingview_data) ==
    IF i > Len(files)
    THEN TvReturned(TradingViewSummary(all_tradingview_data), all_tradingview_data)
    ELSE LET sch == ResolveSchema(files[i].columns)
         IN IF sch.status # "resolved"
            THEN TvRaised("ValueError: Could not identify required columns in TradingView file",
                          files[i].file_path)
            ELSE ProcessTradingViewFrom(files, i + 1,
                     DictSet(all_tradingview_data, SymbolOf(files[i].file_path),
                             AggregateTrades(files[i].rows, sch)))

process_tradingview_data ==
    /\ tradingview_data = TvNotCalled
    /\ tradingview_data' = ProcessTradingViewFrom(file_paths, 1, EmptyDict)
    /\ UNCHANGED <<kite_file, kite_data, df_columns, schema, schema_again, file_paths, df_delta,
                 app_vars>>

\* Input domain.  A trade-log file is its path, its header, its rows (each a
\* mapping from the header's columns to values) and, for the statement of the
\* properties only, the columns in which the file keeps action, quantity and
\* price (the code never reads `roles`).
MaxTradeRows == 3
MaxFiles == 3

Str_Buy  == <<"B","u","y">>
Str_B    == <<"B">>
Str_Sell == <<"S","e","l","l">>
Str_hold == <<"h","o","l","d">>
ActionVals == {Str_buy, Str_B, Str_Sell, Str_s, Str_hold}
\* (quantity, price) of a row; a negative quantity makes a value negative.
QtyPriceVals == {<<1, 100>>, <<1, 200>>, <<-1, 100>>}

Roles(action, qty, price) == [action |-> action, qty |-> qty, price |-> price]

TradeRow(columns, roles, action, qty, price) ==
    [c \in Range(columns) |->
        CASE c = roles.action -> action
          [] c = roles.qty    -> qty
          [] c = roles.price  -> price
          [] OTHER            -> 0]

TradeRows(columns, roles) ==
    {TradeRow(columns, roles, a, qp[1], qp[2]) : a \in ActionVals, qp \in QtyPriceVals}

Header_Convention1 == <<Col_Date, Col_Action, Col_Quantity, Col_Price>>
Header_Convention2 == <<Col_Symbol, Col_Time, Col_Side, Col_Amount, Col_Price>>
Header_Convention3 == <<Col_date, Col_type, Col_quantity, Col_price>>
Header_Fallback    == <<Col_Symbol, Col_Time, Col_type, Col_Qty, Col_Price>>
Header_NoQuantity  == <<Col_Symbol, Col_Date, Col_Action, Col_Price>>

Path_A      == <<"t","/","A",".","c","s","v">>
Path_B      == <<"t","/","B",".","c","s","v">>
Path_A_data == <<"t","/","A",".","d","a","t","a",".","c","s","v">>
Path_C      == <<"t",".","d","/","C",".","c","s","v">>
Path_D      == <<"t","/","D",".","c","s","v">>

TradeFile(file_path, columns, roles, triples) ==
    [file_path |-> file_path, columns |-> columns, roles |-> roles,
     rows |-> [i \in 1..Len(triples) |->
                  TradeRow(columns, roles, triples[i][1], triples[i][2], triples[i][3])]]

\* One file of up to n arbitrary rows under a pattern's header, or of up to
\* n - 1 rows under a header that only the fallback resolves.
SingleFileBatches(n) ==
    {<<[file_path |-> Path_A, columns |-> Header_Convention1,
        roles |-> Roles(Col_Action, Col_Quantity, Col_Price), rows |-> rows]>> :
        rows \in SeqsUpTo(TradeRows(Header_Convention1,
                                    Roles(Col_Action, Col_Quantity, Col_Price)), n)}
    \cup
    {<<[file_path |-> Path_B, columns |-> Header_Fallback,
        roles |-> Roles(Col_type, Col_Qty, Col_Price), rows |-> rows]>> :
        rows \in SeqsUpTo(TradeRows(Header_Fallback,
                                    Roles(Col_type, Col_Qty, Col_Price)), n - 1)}

\* Files of which the batches of several files are made: two symbols, a
\* second file of symbol A, an empty table, and a table without a quantity
\* column, which cannot be resolved.
FileCatalog ==
    {TradeFile(Path_A, Header_Convention1, Roles(Col_Action, Col_Quantity, Col_Price),
               << <<Str_buy, 10, 100>>, <<Str_sell, 10, 200>> >>),
     TradeFile(Path_B, Header_Convention2, Roles(Col_Side, Col_Amount, Col_Price),
               << <<Str_B, 10, 200>>, <<Str_s, 10, 100>>, <<Str_hold, 10, 100>> >>),
     TradeFile(Path_A_data, Header_Fallback, Roles(Col_type, Col_Qty, Col_Price),
               << <<Str_Sell, 10, 100>> >>),
     TradeFile(Path_C, Header_Convention3, Roles(Col_type, Col_quantity, Col_price), <<>>),
     TradeFile(Path_D, Header_NoQuantity, Roles(Col_Action, Col_Price, Col_Price),
               << <<Str_buy, 10, 100>> >>)}

\* Batches of up to n files of the catalog.
MultiFileBatches(n) == SeqsUpTo(FileCatalog, n)

InitTradingView ==
    /\ kite_file = NoFile
    /\ kite_data = KiteNotCalled
    /\ df_columns = <<>>
    /\ schema = NotResolved
    /\ schema_again = NotResolved
    /\ file_paths \in SingleFileBatches(MaxTradeRows) \cup MultiFileBatches(MaxFiles)
    /\ tradingview_data = TvNotCalled
    /\ df_delta = [status |-> "not called", error |-> "", rows |-> <<>>]
    /\ AppIdle

NextTradingView == process_tradingview_data

SpecTradingView == InitTradingView /\ [][NextTradingView]_vars

---------------------------------------------------------------------------
(* The resolution of the columns of one table (process_tradingview_data,   *)
(* lines 86-114), taken alone.                                             *)

\* The resolution of df.columns of the file file_paths[1]; when no column
\* set is found, the ValueError naming the file is raised.
resolve_schema ==
    /\ schema = NotResolved
    /\ df_columns # <<>>
    /\ schema' = ResolveSchema(df_columns)
    /\ tradingview_data' =
          IF ResolveSchema(df_columns).status = "resolved" THEN tradingview_data
          ELSE TvRaised("ValueError: Could not identify required columns in TradingView file",
                        file_paths[1].file_path)
    /\ UNCHANGED <<kite_file, kite_data, df_columns, schema_again, file_paths,
                 df_delta, app_vars>>

resolve_again ==
    /\ schema.status = "resolved"
    /\ schema_again = NotResolved
    /\ schema_again' = ResolveSchema(ResolvedColumnsOnly(df_columns, schema))
    /\ UNCHANGED <<kite_file, kite_data, df_columns, schema, file_paths,
                 tradingview_data, df_delta, app_vars>>

\* Input domain: the column names a trade-log table is made of, in the two
\* column orders ColumnOrder and its reverse.
ColumnOrder ==
    <<Col_Symbol, Col_date, Col_Time, Col_Date,
      Col_price_type, Col_type, Col_Side, Col_Action,
      Col_Qty, Col_quantity, Col_Amount, Col_Quantity,
      Col_price, Col_Price>>

Reverse(seq) == [i \in 1..Len(seq) |-> seq[Len(seq) + 1 - i]]

\* Every table header: a non-empty subset of the names, in either order.
TableHeaders ==
    {SelectSeq(order, LAMBDA col : col \in chosen) :
        order \in {ColumnOrder, Reverse(ColumnOrder)},
        chosen \in (SUBSET Range(ColumnOrder)) \ {{}}}

InitResolve ==
    /\ kite_file = NoFile
    /\ kite_data = KiteNotCalled
    /\ df_columns \in TableHeaders
    /\ schema = NotResolved
    /\ schema_again = NotResolved
    /\ file_paths = <<[file_path |-> Path_A, columns |-> df_columns,
                       roles |-> Roles(NoColumn, NoColumn, NoColumn), rows |-> <<>>]>>
    /\ tradingview_data = TvNotCalled
    /\ df_delta = [status |-> "not called", error |-> "", rows |-> <<>>]
    /\ AppIdle

NextResolve == resolve_schema \/ resolve_again

SpecResolve == InitResolve /\ [][NextResolve]_vars

---------------------------------------------------------------------------
(* Properties of the resolution of the columns, checked under SpecResolve. *)

HeaderNames == {df_columns[i] : i \in 1..Len(df_columns)}

HasAll(names) == names \subseteq HeaderNames

Names1 == {Col_Date, Col_Action, Col_Quantity, Col_Price}
Names2 == {Col_Time, Col_Side, Col_Amount, Col_Price}
Names3 == {Col_date, Col_type, Col_quantity, Col_price}

SchemaIs(sch, d, a, q, p) ==
    /\ sch.status = "resolved"
    /\ sch.date_col = d /\ sch.action_col = a /\ sch.qty_col = q /\ sch.price_col = p

\* Position of a column in the header.
PositionOf(col) == CHOOSE i \in 1..Len(df_columns) : df_columns[i] = col

\* The first column of the header whose lower-cased name contains a keyword.
FirstWith(keywords) ==
    LET hits == {i \in 1..Len(df_columns) :
                    \E kw \in keywords : Contains(StrLower(df_columns[i]), kw)}
    IN df_columns[CHOOSE i \in hits : \A j \in hits : i <= j]

\* C8: the patterns (Date, Action, Quantity, Price), (Time, Side, Amount,
\* Price), (date, type, quantity, price) are tried in that order with exact
\* names and the first whose four columns the table holds decides the
\* result, whatever other columns the table has and whatever the keyword
\* fallback would pick.
C8_FirstConventionWins ==
    schema # NotResolved =>
        /\ HasAll(Names1) => SchemaIs(schema, Col_Date, Col_Action, Col_Quantity, Col_Price)
        /\ (~ HasAll(Names1) /\ HasAll(Names2)) =>
              SchemaIs(schema, Col_Time, Col_Side, Col_Amount, Col_Price)
        /\ (~ HasAll(Names1) /\ ~ HasAll(Names2) /\ HasAll(Names3)) =>
              SchemaIs(schema, Col_date, Col_type, Col_quantity, Col_price)

\* C8 witness: a table holding the columns of the second and of the third
\* pattern but not of the first, and further columns, resolved to the second
\* pattern although the keyword fallback picks other columns for every role.
C8_Witness ==
    /\ schema.status = "resolved"
    /\ ~ HasAll(Names1) /\ HasAll(Names2) /\ HasAll(Names3)
    /\ Col_Symbol \in HeaderNames
    /\ schema.date_col = Col_Time     /\ FirstWith(Kw_date) # Col_Time
    /\ schema.action_col = Col_Side   /\ FirstWith(Kw_action) # Col_Side
    /\ schema.qty_col = Col_Amount    /\ FirstWith(Kw_qty) # Col_Amount
    /\ schema.price_col = Col_Price   /\ FirstWith(Kw_price) # Col_Price

\* C9: resolving the table made of only the resolved columns, in their
\* original order, yields the same four columns as the first resolution.
C9_Idempotent ==
    schema_again # NotResolved =>
        /\ schema_again.status = "resolved"
        /\ schema_again.date_col = schema.date_col
        /\ schema_again.action_col = schema.action_col
        /\ schema_again.qty_col = schema.qty_col
        /\ schema_again.price_col = schema.price_col

\* C9 witness: a table that holds no pattern's columns, was resolved by the
\* fallback, lost columns that were candidates when cut down to the resolved
\* columns, and resolved again.
C9_Witness ==
    /\ schema_again.status = "resolved"
    /\ ~ HasAll(Names1) /\ ~ HasAll(Names2) /\ ~ HasAll(Names3)
    /\ Len(df_columns) >= 6
    /\ \E i \in 1..Len(df_columns) :
          /\ df_columns[i] \notin {schema.date_col, schema.action_col,
                                   schema.qty_col, schema.price_col}
          /\ \E kw \in Kw_date : Contains(StrLower(df_columns[i]), kw)
    /\ \E i \in 1..Len(df_columns) :
          /\ df_columns[i] \notin {schema.date_col, schema.action_col,
                                   schema.qty_col, schema.price_col}
          /\ \E kw \in Kw_qty : Contains(StrLower(df_columns[i]), kw)

\* C9, second case: a table resolved by a pattern and resolved again.
C9_ConventionCaseReached ==
    /\ schema_again.status = "resolved"
    /\ HasAll(Names2)
    /\ Len(df_columns) > 4

NoConventionMatches == ~ HasAll(Names1) /\ ~ HasAll(Names2) /\ ~ HasAll(Names3)

\* Some column's lower-cased name contains one of the keywords.
HasCandidate(keywords) ==
    \E i \in 1..Len(df_columns) :
        \E kw \in keywords : Contains(StrLower(df_columns[i]), kw)

\* C15: when no pattern matches, the resolution succeeds if and only if each
\* of the four roles has a column whose lower-cased name contains one of the
\* role's keywords (date: date, time; action: action, type, side; quantity:
\* qty, quantity, amount; price: price); each role then gets the first such
\* column in the original column order; otherwise the ValueError naming the
\* file is raised.
C15_FallbackFirstCandidatePerRole ==
    (schema # NotResolved /\ NoConventionMatches) =>
        /\ schema.status = "resolved" <=>
              (/\ HasCandidate(Kw_date) /\ HasCandidate(Kw_action)
               /\ HasCandidate(Kw_qty)  /\ HasCandidate(Kw_price))
        /\ schema.status = "resolved" =>
              /\ schema.date_col = FirstWith(Kw_date)
              /\ schema.action_col = FirstWith(Kw_action)
              /\ schema.qty_col = FirstWith(Kw_qty)
              /\ schema.price_col = FirstWith(Kw_price)
              /\ tradingview_data.status # "raised"
        /\ schema.status # "resolved" =>
              /\ tradingview_data.status = "raised"
              /\ tradingview_data.error =
                    "ValueError: Could not identify required columns in TradingView file"
              /\ tradingview_data.file_path = file_paths[1].file_path

\* C15 witness: a table no pattern matches, resolved by the fallback, in which
\* the date and the quantity role each have two candidates, the first of
\* which was taken, and the date column matches its keyword only once
\* lower-cased.
C15_Witness ==
    /\ schema.status = "resolved"
    /\ NoConventionMatches
    /\ df_columns = <<Col_Symbol, Col_Time, Col_Date, Col_type, Col_Qty, Col_Amount, Col_Price>>
    /\ schema.date_col = Col_Time
    /\ schema.action_col = Col_type
    /\ schema.qty_col = Col_Qty
    /\ schema.price_col = Col_Price

\* A table with candidates for three of the four roles only: the call raised.
C15_FailureReached ==
    /\ schema.status = "unresolved"
    /\ HasCandidate(Kw_date) /\ HasCandidate(Kw_action) /\ HasCandidate(Kw_price)
    /\ ~ HasCandidate(Kw_qty)
    /\ tradingview_data.status = "raised"

\* C17: whenever the resolution succeeds, the four resolved columns are
\* pairwise distinct: no column is taken for two roles.
C17_ResolvedColumnsDistinct ==
    schema.status = "resolved" =>
        Cardinality({schema.date_col, schema.action_col,
                     schema.qty_col, schema.price_col}) = 4

---------------------------------------------------------------------------
(* Properties of process_tradingview_data, checked under SpecTradingView.  *)

TvEntries == tradingview_data.stocks_data

\* File k is the last file of the batch with its symbol (an earlier file of
\* the same symbol is overwritten in the mapping).
LastOfItsSymbol(k) ==
    \A j \in (k + 1)..Len(file_paths) :
        SymbolOf(file_paths[j].file_path) # SymbolOf(file_paths[k].file_path)

\* The rows of a file whose lower-cased action is one of the spellings.
RowsWithAction(file, spellings) ==
    {i \in 1..Len(file.rows) : StrLower(file.rows[i][file.roles.action]) \in spellings}

\* Sum of quantity * price over the rows idx of a file.
ValueOfRows(file, idx) ==
    SumOver(idx, [i \in idx |-> file.rows[i][file.roles.qty] * file.rows[i][file.roles.price]])

BuySpellings  == {<<"b","u","y">>, <<"b">>}
SellSpellings == {<<"s","e","l","l">>, <<"s">>}

\* The batch of the one file A.csv with the rows (buy,10,100), (sell,10,200).
ExampleBatch ==
    <<TradeFile(Path_A, Header_Convention1, Roles(Col_Action, Col_Quantity, Col_Price),
                << <<Str_buy, 10, 100>>, <<Str_sell, 10, 200>> >>)>>

C11_PctGuardedByPositiveBuyValue ==
    tradingview_data.status = "returned" =>
        \A s \in DOMAIN TvEntries :
            LET entry == TvEntries[s]
                pct   == entry.realized_pnl_pct
            IN /\ pct.kind = "num"
               /\ pct.den # 0
               /\ entry.buy_value > 0 =>
                      pct.num * entry.buy_value = 100 * entry.realized_pnl * pct.den
               /\ entry.buy_value <= 0 => pct.num = 0

\* C11 witness: one result holding an instrument with a positive buy total
\* and a non-zero percentage, and one table whose buy total is negative while
\* its realized P&L is not zero.
C11_Witness ==
    /\ tradingview_data.status = "returned"
    /\ \E s \in DOMAIN TvEntries :
          /\ TvEntries[s].buy_value < 0
          /\ TvEntries[s].realized_pnl # 0
          /\ TvEntries[s].realized_pnl_pct.num = 0

\* A result with an instrument of positive buy total and non-zero percentage
\* and an instrument without any buy row.
C11_PositiveAndZeroReached ==
    /\ tradingview_data.status = "returned"
    /\ \E s, t \in DOMAIN TvEntries :
          /\ TvEntries[s].buy_value > 0
          /\ TvEntries[s].realized_pnl_pct.num # 0
          /\ TvEntries[t].buy_value = 0
          /\ TvEntries[t].realized_pnl_pct.num = 0

---------------------------------------------------------------------------
(* calculate_deltas                                                        *)

\* Mutant of GetRealizedPnl: the default is 1 instead of 0.
GetRealizedPnl_DefaultOne(mapping, symbol) ==
    IF symbol \in DOMAIN mapping THEN mapping[symbol].realized_pnl ELSE 1

\* mapping.get(symbol, {}).get('realized_pnl', 0)
GetRealizedPnl(mapping, symbol) ==
    IF symbol \in DOMAIN mapping THEN mapping[symbol].realized_pnl ELSE 0

\* Mutant of Delta: the operands swapped.
Delta_Swapped(kite_pnl, tv_pnl) == tv_pnl - kite_pnl

\* delta = kite_pnl - tv_pnl
Delta(kite_pnl, tv_pnl) == kite_pnl - tv_pnl

\* Mutant of DeltaPct: the denominator without abs().
DeltaPct_NoAbs(delta, kite_pnl) ==
    IF kite_pnl # 0 THEN TrueDiv(100 * delta, kite_pnl) ELSE Inf

\* delta_pct = 100 * (delta / abs(kite_pnl)) if kite_pnl != 0 else float('inf')
DeltaPct(delta, kite_pnl) ==
    IF kite_pnl # 0 THEN TrueDiv(100 * delta, Abs(kite_pnl)) ELSE Inf

\* The dictionary appended to delta_data for one symbol.
DeltaRow(stocks_summary, stocks_data, symbol) ==
    LET kite_pnl == GetRealizedPnl(stocks_summary, symbol)
        tv_pnl   == GetRealizedPnl(stocks_data, symbol)
        delta    == Delta(kite_pnl, tv_pnl)
    IN [Symbol          |-> symbol,
        Kite_PnL        |-> kite_pnl,
        TradingView_PnL |-> tv_pnl,
        Delta           |-> delta,
        Delta_Pct       |-> DeltaPct(delta, kite_pnl)]

\* all_symbols = set(stocks_summary.keys()) | set(stocks_data.keys())
AllSymbols(stocks_summary, stocks_data) == DOMAIN stocks_summary \cup DOMAIN stocks_data

\* delta_data after the loop, the symbols visited in the order all_symbols.
DeltaData(stocks_summary, stocks_data, all_symbols) ==
    [i \in 1..Len(all_symbols) |-> DeltaRow(stocks_summary, stocks_data, all_symbols[i])]

\* df_delta.sort_values('Delta', key=abs, ascending=False): the possible results.
SortByAbsDelta(delta_data) ==
    LET keys == [i \in 1..Len(delta_data) |-> Abs(delta_data[i].Delta)]
    IN {Reindex(delta_data, ord) : ord \in SortedIndexOrders(1..Len(delta_data), keys)}

NotCalled == [status |-> "not called", error |-> "", rows |-> <<>>]
Returned(rows) == [status |-> "returned", error |-> "", rows |-> rows]
Raised(error) == [status |-> "raised", error |-> error, rows |-> <<>>]

\* What calculate_deltas can return or raise when the set all_symbols is
\* iterated in the order all_symbols.
CalculateDeltasOutcomes(stocks_summary, stocks_data, all_symbols) ==
    LET delta_data == DeltaData(stocks_summary, stocks_data, all_symbols)
    IN IF \E i \in 1..Len(delta_data) : delta_data[i].Delta_Pct.kind = "ZeroDivisionError"
       THEN {Raised("ZeroDivisionError")}
       ELSE IF delta_data = <<>>
       \* pd.DataFrame([]) has no column 'Delta': sort_values raises KeyError
       THEN {Raised("KeyError: 'Delta'")}
       ELSE {Returned(rows) : rows \in SortByAbsDelta(delta_data)}

calculate_deltas ==
    /\ df_delta = NotCalled
    /\ \E all_symbols \in SetIterationOrders(AllSymbols(kite_data.stocks_summary,
                                                         tradingview_data.stocks_data)) :
         \E outcome \in CalculateDeltasOutcomes(kite_data.stocks_summary,
                                                tradingview_data.stocks_data, all_symbols) :
            df_delta' = outcome
    /\ UNCHANGED <<kite_file, kite_data, df_columns, schema, schema_again, file_paths,
                 tradingview_data, app_vars>>

\* The per-instrument mappings handed to calculate_deltas: every mapping from
\* a subset of Symbols to an entry; calculate_deltas reads only realized_pnl.
InstrumentMappings ==
    UNION {[S -> {[realized_pnl |-> p] : p \in PnlVals}] : S \in SUBSET Symbols}

InitDelta ==
    /\ kite_file = NoFile
    /\ df_columns = <<>>
    /\ schema = NotResolved
    /\ schema_again = NotResolved
    /\ file_paths = <<>>
    /\ kite_data \in {[stocks_summary |-> m] : m \in InstrumentMappings}
    /\ tradingview_data \in {[stocks_data |-> m] : m \in InstrumentMappings}
    /\ df_delta = NotCalled
    /\ AppIdle

NextDelta == calculate_deltas

SpecDelta == InitDelta /\ [][NextDelta]_vars

---------------------------------------------------------------------------
(* Properties of calculate_deltas, checked under SpecDelta.                *)

\* Position of a symbol in ascending string order.
SymbolRank(s) == CHOOSE i \in 1..Len(SymbolOrder) : SymbolOrder[i] = s

\* The settlement and the trade-log realized P&L of a symbol, 0 when the
\* mapping lacks it, read from the arguments.
SettlementPnl(s) ==
    IF s \in DOMAIN kite_data.stocks_summary
    THEN kite_data.stocks_summary[s].realized_pnl ELSE 0
TradeLogPnl(s) ==
    IF s \in DOMAIN tradingview_data.stocks_data
    THEN tradingview_data.stocks_data[s].realized_pnl ELSE 0

UnionOfKeys == DOMAIN kite_data.stocks_summary \cup DOMAIN tradingview_data.stocks_data

DeltaRows == df_delta.rows

\* C1: for every pair of mappings, calculate_deltas returns a table with
\* exactly one row per symbol of the union of the two key sets: its length is
\* the size of the union, no symbol is missing and none appears twice.
C1_OneRowPerUnionSymbol ==
    df_delta # NotCalled =>
        /\ df_delta.status = "returned"
        /\ Len(DeltaRows) = Cardinality(UnionOfKeys)
        /\ \A s \in UnionOfKeys :
               Cardinality({i \in 1..Len(DeltaRows) : DeltaRows[i].Symbol = s}) = 1

\* C2: in every returned row Delta is the settlement P&L minus the trade-log
\* P&L, a side lacking the symbol counting as 0; for a symbol absent from the
\* trade log, Delta is the symbol's settlement realized_pnl.
C2_DeltaIsDifference ==
    df_delta.status = "returned" =>
        \A i \in 1..Len(DeltaRows) :
            LET r == DeltaRows[i]
            IN /\ r.Kite_PnL = SettlementPnl(r.Symbol)
               /\ r.TradingView_PnL = TradeLogPnl(r.Symbol)
               /\ r.Delta = SettlementPnl(r.Symbol) - TradeLogPnl(r.Symbol)
               /\ (r.Symbol \notin DOMAIN tradingview_data.stocks_data
                      => r.Delta = kite_data.stocks_summary[r.Symbol].realized_pnl)

\* C2 witness: a returned table with a row whose symbol the trade log lacks
\* and a row whose symbol both sides hold with different non-zero P&L.
C2_Witness ==
    /\ df_delta.status = "returned"
    /\ \E i, j \in 1..Len(DeltaRows) :
          /\ DeltaRows[i].Symbol \notin DOMAIN tradingview_data.stocks_data
          /\ DeltaRows[i].Delta # 0
          /\ DeltaRows[j].Symbol \in DOMAIN kite_data.stocks_summary
          /\ DeltaRows[j].Symbol \in DOMAIN tradingview_data.stocks_data
          /\ DeltaRows[j].Kite_PnL # 0
          /\ DeltaRows[j].TradingView_PnL # 0
          /\ DeltaRows[j].Delta # 0

\* C3: the returned rows are in descending order of |Delta|, and rows with
\* equal |Delta| are in ascending symbol order.
C3_SortedWithSymbolTieBreak ==
    df_delta.status = "returned" =>
        \A i, j \in 1..Len(DeltaRows) :
            i < j =>
                \/ Abs(DeltaRows[i].Delta) > Abs(DeltaRows[j].Delta)
                \/ /\ Abs(DeltaRows[i].Delta) = Abs(DeltaRows[j].Delta)
                   /\ SymbolRank(DeltaRows[i].Symbol) < SymbolRank(DeltaRows[j].Symbol)

\* C4: in every returned row Delta_Pct is 100 * Delta / |settlement_pnl| when
\* settlement_pnl is not 0 and is infinity exactly when settlement_pnl is 0;
\* calculate_deltas never raises a division fault.
C4_DeltaPct ==
    /\ df_delta.error # "ZeroDivisionError"
    /\ df_delta.status = "returned" =>
        \A i \in 1..Len(DeltaRows) :
            LET r == DeltaRows[i]
                settlement_pnl == SettlementPnl(r.Symbol)
            IN /\ (r.Delta_Pct.kind = "inf") <=> (settlement_pnl = 0)
               /\ settlement_pnl # 0 =>
                     /\ r.Delta_Pct.kind = "num"
                     /\ r.Delta_Pct.den > 0
                     /\ r.Delta_Pct.num * Abs(settlement_pnl) = 100 * r.Delta * r.Delta_Pct.den

\* C4 witness: a returned table with a symbol held only by the trade log
\* (infinite), a symbol whose P&L is 0 on both sides (Delta 0, infinite) and a
\* symbol with a negative settlement P&L and a non-zero Delta (finite).
C4_Witness ==
    /\ df_delta.status = "returned"
    /\ \E i, j, k \in 1..Len(DeltaRows) :
          /\ DeltaRows[i].Symbol \notin DOMAIN kite_data.stocks_summary
          /\ DeltaRows[i].Delta # 0
          /\ DeltaRows[i].Delta_Pct = Inf
          /\ DeltaRows[j].Symbol \in DOMAIN kite_data.stocks_summary
          /\ DeltaRows[j].Kite_PnL = 0
          /\ DeltaRows[j].Delta = 0
          /\ DeltaRows[j].Delta_Pct = Inf
          /\ DeltaRows[k].Kite_PnL < 0
          /\ DeltaRows[k].Delta # 0
          /\ DeltaRows[k].Delta_Pct.kind = "num"

\* The symbols held by one mapping only.
OnlyInSettlement ==
    DOMAIN kite_data.stocks_summary \ DOMAIN tradingview_data.stocks_data
OnlyInTradeLog ==
    DOMAIN tradingview_data.stocks_data \ DOMAIN kite_data.stocks_summary

\* C14 as stated: a symbol held by one source only counts 0 for the missing
\* side and its Delta equals its own realized P&L in the source that has it,
\* for a symbol held only by the settlement mapping and for a symbol held
\* only by the trade-log mapping alike.
C14_OneSidedDeltaIsOwnPnl ==
    df_delta.status = "returned" =>
        \A i \in 1..Len(DeltaRows) :
            LET r == DeltaRows[i]
            IN /\ r.Symbol \in OnlyInSettlement =>
                     /\ r.TradingView_PnL = 0
                     /\ r.Delta = kite_data.stocks_summary[r.Symbol].realized_pnl
               /\ r.Symbol \in OnlyInTradeLog =>
                     /\ r.Kite_PnL = 0
                     /\ r.Delta = tradingview_data.stocks_data[r.Symbol].realized_pnl

\* C14 amended: a symbol held by one source only counts 0 for the missing
\* side; its Delta is its own realized P&L when the settlement mapping holds
\* it, and the negation of its own realized P&L when the trade-log mapping
\* holds it.
C14_OneSidedDeltaIsSignedOwnPnl ==
    df_delta.status = "returned" =>
        \A i \in 1..Len(DeltaRows) :
            LET r == DeltaRows[i]
            IN /\ r.Symbol \in OnlyInSettlement =>
                     /\ r.TradingView_PnL = 0
                     /\ r.Delta = kite_data.stocks_summary[r.Symbol].realized_pnl
               /\ r.Symbol \in OnlyInTradeLog =>
                     /\ r.Kite_PnL = 0
                     /\ r.Delta = 0 - tradingview_data.stocks_data[r.Symbol].realized_pnl

\* C14 witness: a returned table with a row of a symbol held only by the
\* settlement mapping and a row of a symbol held only by the trade-log
\* mapping, both with a non-zero realized P&L.
C14_Witness ==
    /\ df_delta.status = "returned"
    /\ \E i, j \in 1..Len(DeltaRows) :
          /\ DeltaRows[i].Symbol \in OnlyInSettlement
          /\ DeltaRows[i].Kite_PnL # 0
          /\ DeltaRows[j].Symbol \in OnlyInTradeLog
          /\ DeltaRows[j].TradingView_PnL # 0

---------------------------------------------------------------------------
(* app.py: upload_files, process_files, get_analysis, get_chart            *)

core_vars == <<kite_file, kite_data, df_columns, schema, schema_again, file_paths,
               tradingview_data, df_delta>>

\* The three functions of data_processor.py are not under study on their own.
CoreIdle ==
    /\ kite_file = NoFile
    /\ kite_data = KiteNotCalled
    /\ df_columns = <<>>
    /\ schema = NotResolved
    /\ schema_again = NotResolved
    /\ file_paths = <<>>
    /\ tradingview_data = TvNotCalled
    /\ df_delta = NotCalled

\* The values uuid.uuid4() returns; at most MaxSessions uploads are sent.
MaxSessions == 2
SessionNames == <<"s1", "s2", "s3", "s4">>
SessionIds == {SessionNames[i] : i \in 1..MaxSessions}

\* A symbol cut from a file name, as the string it is (symbols of the
\* settlement table are strings; the catalog's file names give one letter).
SymbolString(symbol) == symbol[1]

\* stocks_data with its keys as strings.
KeyedBySymbolString(stocks_data) ==
    [s \in {SymbolString(k) : k \in DOMAIN stocks_data} |->
        stocks_data[CHOOSE k \in DOMAIN stocks_data : SymbolString(k) = s]]

\* str(e) of the exception caught: its message and what the message names.
ErrorText(message, column, file_path) ==
    [message |-> message, column |-> column, file_path |-> file_path]

\* Outcomes of the try block of process_files.
TryReturned(kite_data_, tradingview_data_, delta_data) ==
    [raised |-> FALSE, error |-> ErrorText("", "", <<>>), kite_data |-> kite_data_,
     tradingview_data |-> tradingview_data_, delta_data |-> delta_data]
TryRaised(error, kite_data_) ==
    [raised |-> TRUE, error |-> error, kite_data |-> kite_data_,
     tradingview_data |-> [summary |-> NoSummary, stocks_data |-> EmptyDict],
     delta_data |-> <<>>]

\* delta_data = calculate_deltas(kite_data, tradingview_data), and what follows
DeltaStage(kite_report, tv) ==
    UNION {UNION {{IF d.status = "raised"
                   THEN TryRaised(ErrorText(d.error, "", <<>>), kite_report)
                   ELSE TryReturned(kite_report,
                                    [summary |-> tv.summary, stocks_data |-> tv.stocks_data],
                                    d.rows)
                   : d \in CalculateDeltasOutcomes(kite_report.stocks_summary, stocks_data,
                                                   all_symbols)}
                  : all_symbols \in SetIterationOrders(
                                       AllSymbols(kite_report.stocks_summary, stocks_data))}
           : stocks_data \in {KeyedBySymbolString(tv.stocks_data)}}

\* tradingview_data = process_tradingview_data(tradingview_files), and what follows
TradingViewStage(kite_report, tradingview_files) ==
    UNION {IF tv.status = "raised"
           THEN {TryRaised(ErrorText(tv.error, "", tv.file_path), kite_report)}
           ELSE DeltaStage(kite_report, tv)
           : tv \in {ProcessTradingViewFrom(tradingview_files, 1, EmptyDict)}}

\* The try block: kite_data = process_kite_data(kite_file), and what follows
TryBlock(files) ==
    UNION {IF k.status = "raised"
           THEN {TryRaised(ErrorText(k.error, k.column, <<>>), NoReport)}
           ELSE TradingViewStage(k.report, files.tradingview_files)
           : k \in ProcessKiteDataOutcomes(files.kite_file)}

\* Mutant of StoredEntry: on an exception the settlement report computed so
\* far is stored beside the error.
StoredEntry_Partial(outcome) ==
    IF outcome.raised
    THEN [error |-> outcome.error, kite_data |-> outcome.kite_data]
    ELSE [kite_data        |-> outcome.kite_data,
          tradingview_data |-> outcome.tradingview_data,
          delta_data       |-> outcome.delta_data]

\* What process_files assigns to analysis_results[session_id].
StoredEntry(outcome) ==
    IF outcome.raised
    THEN [error |-> outcome.error]
    ELSE [kite_data        |-> outcome.kite_data,
          tradingview_data |-> outcome.tradingview_data,
          delta_data       |-> outcome.delta_data]

Response(endpoint, session_id, chart_type, status_code, detail) ==
    [endpoint |-> endpoint, session_id |-> session_id, chart_type |-> chart_type,
     status_code |-> status_code, detail |-> detail]

\* POST /upload: the files of the next request are saved under a new session
\* id and process_files(session_id) is added to the background tasks.
upload_files ==
    /\ requests # <<>>
    /\ \E session_id \in SessionIds \ DOMAIN uploaded_files :
          /\ uploaded_files' = DictSet(uploaded_files, session_id, Head(requests))
          /\ background_tasks' = background_tasks \cup {session_id}
          /\ response' = Response("upload", session_id, "", 200,
                                  "Files uploaded successfully. Processing started.")
    /\ requests' = Tail(requests)
    /\ UNCHANGED <<analysis_results, core_vars>>

\* Mutant of process_files: an exception of the try block is not caught, the
\* task ends without storing anything.
process_files_Uncaught(session_id) ==
    /\ session_id \in background_tasks
    /\ \E outcome \in TryBlock(uploaded_files[session_id]) :
          analysis_results' =
              IF outcome.raised THEN analysis_results
              ELSE DictSet(analysis_results, session_id, StoredEntry(outcome))
    /\ background_tasks' = background_tasks \ {session_id}
    /\ UNCHANGED <<requests, uploaded_files, response, core_vars>>

\* The background task process_files(session_id).  It has no await, so it
\* runs to its end without another handler running in between.
process_files(session_id) ==
    /\ session_id \in background_tasks
    /\ \E outcome \in TryBlock(uploaded_files[session_id]) :
          analysis_results' = DictSet(analysis_results, session_id, StoredEntry(outcome))
    /\ background_tasks' = background_tasks \ {session_id}
    /\ UNCHANGED <<requests, uploaded_files, response, core_vars>>

\* The two checks get_analysis and get_chart start with; status_code 0 when
\* both pass.
StoredCheck(endpoint, session_id, chart_type) ==
    IF session_id \notin DOMAIN analysis_results
    THEN Response(endpoint, session_id, chart_type, 404,
                  "Analysis not found or still processing")
    ELSE IF "error" \in DOMAIN analysis_results[session_id]
    THEN Response(endpoint, session_id, chart_type, 500,
                  analysis_results[session_id].error.message)
    ELSE Response(endpoint, session_id, chart_type, 0, "")

\* GET /analysis/{session_id}
get_analysis(session_id) ==
    /\ response' =
          LET checked == StoredCheck("analysis", session_id, "")
          IN IF checked.status_code # 0 THEN checked
             ELSE Response("analysis", session_id, "", 200, "")
    /\ UNCHANGED <<requests, uploaded_files, analysis_results, background_tasks, core_vars>>

\* The chart types of the if/elif chain, and one that is none of them.
ChartTypes == {"pnl", "delta", "distribution", "buysell", "volume"}

\* The responses of the try block of get_chart.  generate_pnl_chart and
\* generate_delta_chart return an image or raise; the names
\* generate_pnl_distribution_chart and generate_buy_sell_chart are not
\* imported by app.py, so calling them raises NameError; the HTTPException of
\* the else branch is raised inside the try and HTTPException is an Exception,
\* so `except Exception` catches each of them and answers 500.
ChartResponses(session_id, chart_type) ==
    IF chart_type \in {"pnl", "delta"}
    THEN {Response("charts", session_id, chart_type, 200, ""),
          Response("charts", session_id, chart_type, 500, "str(e)")}
    ELSE IF chart_type \in {"distribution", "buysell"}
    THEN {Response("charts", session_id, chart_type, 500, "NameError")}
    ELSE {Response("charts", session_id, chart_type, 500,
                   "str(HTTPException(400, 'Invalid chart type'))")}

\* GET /charts/{session_id}/{chart_type}
get_chart(session_id, chart_type) ==
    /\ LET checked == StoredCheck("charts", session_id, chart_type)
       IN IF checked.status_code # 0 THEN response' = checked
          ELSE response' \in ChartResponses(session_id, chart_type)
    /\ UNCHANGED <<requests, uploaded_files, analysis_results, background_tasks, core_vars>>

\* Input domain: the uploads clients send.  The file names of one upload are
\* distinct, so no saved file overwrites another.
File_A ==
    TradeFile(Path_A, Header_Convention1, Roles(Col_Action, Col_Quantity, Col_Price),
              << <<Str_buy, 10, 100>>, <<Str_sell, 10, 200>> >>)
File_D ==
    TradeFile(Path_D, Header_NoQuantity, Roles(Col_Action, Col_Price, Col_Price),
              << <<Str_buy, 10, 100>> >>)
KiteUpload_Good ==
    [file_path |-> Path_csv, columns |-> RequiredColumnSet,
     rows |-> <<KiteRow(RequiredColumnSet, "A", 2, 100),
                KiteRow(RequiredColumnSet, "B", -1, 100)>>]
KiteUpload_NoISIN ==
    [file_path |-> Path_csv, columns |-> RequiredColumnSet \ {"ISIN"},
     rows |-> <<KiteRow(RequiredColumnSet \ {"ISIN"}, "A", 2, 100)>>]

Upload(kite, batch) == [kite_file |-> kite, tradingview_files |-> batch]

\* Uploads of several sessions: a settlement file that is well formed or lacks
\* a column, with one trade log that resolves or does not.
SessionUploads ==
    {Upload(k, b) : k \in {KiteUpload_Good, KiteUpload_NoISIN}, b \in {<<File_A>>, <<File_D>>}}

\* Uploads of one session with any batch of 1..n files of the catalog.
BatchUploads(n) ==
    {Upload(k, b) : k \in {KiteUpload_Good, KiteUpload_NoISIN},
                    b \in MultiFileBatches(n) \ {<<>>}}

AppStart ==
    /\ uploaded_files = EmptyDict
    /\ analysis_results = EmptyDict
    /\ background_tasks = {}
    /\ response = NoResponse
    /\ CoreIdle

\* Up to MaxSessions uploads.
InitApp ==
    /\ requests \in SeqsUpTo(SessionUploads, MaxSessions)
    /\ AppStart

\* One upload with a batch of up to MaxFiles files.
InitBatch ==
    /\ requests \in {<<u>> : u \in BatchUploads(MaxFiles)}
    /\ AppStart

NextApp ==
    \/ upload_files
    \/ \E session_id \in SessionIds : process_files(session_id)
    \/ \E session_id \in SessionIds : get_analysis(session_id)
    \/ \E session_id \in SessionIds, chart_type \in ChartTypes : get_chart(session_id, chart_type)

SpecApp == InitApp /\ [][NextApp]_vars

SpecBatch == InitBatch /\ [][NextApp]_vars

\* The run of the background task of session_id, told by what it does to
\* background_tasks: of the handlers only process_files(session_id) takes
\* session_id out of it, and it can always do so (the try block returns or
\* raises).
TaskRuns(session_id) ==
    /\ session_id \in background_tasks
    /\ background_tasks' = background_tasks \ {session_id}

\* Uploads whose try block returns, raises in the settlement aggregation, or
\* raises in the trade-log aggregation.
LiveUploads ==
    {Upload(KiteUpload_Good, <<File_A>>), Upload(KiteUpload_NoISIN, <<File_A>>),
     Upload(KiteUpload_Good, <<File_D>>)}

\* Up to MaxSessions uploads of these.
InitLive ==
    /\ requests \in SeqsUpTo(LiveUploads, MaxSessions)
    /\ AppStart

\* Starlette runs each background task after the response of its request has
\* been sent, so an added task is eventually run.
SpecAppLive ==
    /\ InitLive
    /\ [][NextApp]_vars
    /\ \A session_id \in SessionIds : WF_background_tasks(TaskRuns(session_id))

---------------------------------------------------------------------------
(* Properties of the application, checked under SpecBatch, SpecApp and     *)
(* SpecAppLive.                                                            *)

\* The positions of the files of a batch whose header has no quantity column
\* under any name: neither a convention nor the fallback resolves them.
UnresolvableFiles(batch) ==
    {i \in 1..Len(batch) : batch[i].columns = Header_NoQuantity}

FirstOf(positions) == CHOOSE i \in positions : \A j \in positions : i <= j

WellFormedSettlement(file) ==
    \A i \in 1..Len(required_columns) : required_columns[i] \in file.columns

ResolutionErrorMessage ==
    "ValueError: Could not identify required columns in TradingView file"

\* C12: when some file of the uploaded batch cannot be resolved, at whatever
\* position, the processed session holds only an error, no trade-log report
\* and no part of one, even though the files before it were aggregated; when
\* the settlement file was accepted, so that process_tradingview_data was
\* called, the error is the resolution error naming the first such file.
C12_UnresolvableFileAbortsBatch ==
    \A s \in DOMAIN analysis_results :
        LET batch == uploaded_files[s].tradingview_files
            bad   == UnresolvableFiles(batch)
            entry == analysis_results[s]
        IN bad # {} =>
              /\ DOMAIN entry = {"error"}
              /\ WellFormedSettlement(uploaded_files[s].kite_file) =>
                    /\ entry.error.message = ResolutionErrorMessage
                    /\ entry.error.file_path = batch[FirstOf(bad)].file_path

\* C12 witness: a processed batch of three files whose third file cannot be
\* resolved while the first two can; the session holds the error naming it.
C12_Witness ==
    \E s \in DOMAIN analysis_results :
        LET batch == uploaded_files[s].tradingview_files
        IN /\ Len(batch) = 3
           /\ UnresolvableFiles(batch) = {3}
           /\ WellFormedSettlement(uploaded_files[s].kite_file)
           /\ DOMAIN analysis_results[s] = {"error"}
           /\ analysis_results[s].error.file_path = batch[3].file_path

CompleteTriple(entry) == DOMAIN entry = {"kite_data", "tradingview_data", "delta_data"}
ErrorOnly(entry) == DOMAIN entry = {"error"}

\* C13: under any interleaving of uploads, process_files runs and reads, an
\* entry of analysis_results is written once, by the process_files run of its
\* own session (which is pending until then and never afterwards), the value
\* written is the complete triple or an error alone, an entry once written
\* never changes, and get_analysis on a session not yet written answers 404
\* 'Analysis not found or still processing'.
C13_SessionWrittenOnce ==
    [][\A s \in SessionIds :
          /\ s \in DOMAIN analysis_results =>
                /\ s \in DOMAIN analysis_results'
                /\ analysis_results'[s] = analysis_results[s]
          /\ (s \notin DOMAIN analysis_results /\ s \in DOMAIN analysis_results') =>
                /\ s \in DOMAIN uploaded_files
                /\ s \in background_tasks
                /\ CompleteTriple(analysis_results'[s]) \/ ErrorOnly(analysis_results'[s])
                /\ \A t \in SessionIds \ {s} :
                      t \in DOMAIN analysis_results' <=> t \in DOMAIN analysis_results
          /\ s \in DOMAIN uploaded_files' =>
                (s \in background_tasks' <=> s \notin DOMAIN analysis_results')
          /\ s \notin DOMAIN uploaded_files' =>
                (s \notin background_tasks' /\ s \notin DOMAIN analysis_results')
          /\ (/\ response' # response
              /\ response'.endpoint = "analysis"
              /\ response'.session_id = s
              /\ s \notin DOMAIN analysis_results) =>
                /\ response'.status_code = 404
                /\ response'.detail = "Analysis not found or still processing"
      ]_vars

\* C13 witness: two sessions uploaded, one written with the complete triple
\* while the other is still to be processed, and a read of the latter has
\* just been answered 404.
C13_Witness ==
    \E s, t \in DOMAIN uploaded_files :
        /\ s # t
        /\ s \in DOMAIN analysis_results
        /\ CompleteTriple(analysis_results[s])
        /\ t \in background_tasks
        /\ t \notin DOMAIN analysis_results
        /\ response.endpoint = "analysis"
        /\ response.session_id = t
        /\ response.status_code = 404

\* Two sessions written, one with the triple and one with an error alone.
C13_TripleAndErrorReached ==
    \E s, t \in DOMAIN analysis_results :
        CompleteTriple(analysis_results[s]) /\ ErrorOnly(analysis_results[t])


C19_InvalidChartTypeIs400 ==
    response.endpoint = "charts" =>
        LET s == response.session_id
            known == response.chart_type \in {"pnl", "delta", "distribution", "buysell"}
        IN /\ s \notin DOMAIN analysis_results => response.status_code = 404
           /\ (/\ response.status_code # 404
               /\ CompleteTriple(analysis_results[s])
               /\ ~known)
                 => /\ response.status_code = 400
                    /\ response.detail = "Invalid chart type"
           /\ response.status_code = 500
                 => \/ ErrorOnly(analysis_results[s])
                    \/ known

\* The state the code reaches on GET /charts/{session_id}/volume for a session
\* whose analysis completed: the answer is 500, its detail the text of the
\* HTTPException raised in the else branch.
C19_InvalidChartTypeAnswered500 ==
    /\ response.endpoint = "charts"
    /\ response.chart_type = "volume"
    /\ response.session_id \in DOMAIN analysis_results
    /\ CompleteTriple(analysis_results[response.session_id])
    /\ response.status_code = 500
===========================================================================
